---------------------------- MODULE Spec2Model ----------------------------
(***************************************************************************)
(* Model of backend/main.py: the task-cost API.                            *)
(*                                                                         *)
(* Three request handlers (calculate_and_save_tasks, list_tasks,           *)
(* delete_task) run against one relational table (calculated_tasks).      *)
(* Each handler is cut at the points where it touches the datastore:      *)
(* opening the session, the session-local loop, the query, the commit,    *)
(* the except block, the finally block.                                   *)
(*                                                                         *)
(* Numbers.  Python floats are modelled as exact rationals <<n, d>> in     *)
(* lowest terms (d > 0); timestamps are whole seconds counted from         *)
(* 2024-01-10T09:00:00, the start_time of the example in the source.      *)
(***************************************************************************)
EXTENDS Integers, Sequences, FiniteSets

\* ------------------------------------------------------------------ bounds
NumRequests == 2  \* request slots that may be in flight together
MaxBatch == 2     \* longest request.tasks
MaxId == 2        \* ids the table's sequence hands out before the model stops inserting

\* --------------------------------------------------------------- constants
DefaultRate == 50       \* os.getenv("HOURLY_RATE", 50.0)
SecondsPerHour == 3600  \* duration.total_seconds() / 3600
Success == 200          \* a handler that returns normally
BadRequest == 400
NotFound == 404
InternalError == 500

\* 11:30:00 counted in seconds from 09:00:00 (the example of TaskInput)
ExampleEnd == 2 * SecondsPerHour + 30 * 60

Requests == 1..NumRequests
Rates == {DefaultRate, DefaultRate + 30}
Descriptions == {"a", "b"}
\* 09:00:00, 09:00:01 and 11:30:00
Times == {0, 1, ExampleEnd}

\* ------------------------------------------------------------- arithmetic
RECURSIVE GCD(_, _)
GCD(a, b) == IF b = 0 THEN a ELSE GCD(b, a % b)

\* the float n / d
Rat(n, d) == LET g == GCD(n, d) IN <<n \div g, d \div g>>

RatMul(x, y) == Rat(x[1] * y[1], x[2] * y[2])

RatAdd(x, y) == Rat(x[1] * y[2] + y[1] * x[2], x[2] * y[2])

Zero == Rat(0, 1)

\* ------------------------------------------------------------ data models
\* class TaskInput
TaskInput == [description : Descriptions, start_time : Times, end_time : Times]

\* class CalculationRequest: tasks: List[TaskInput]
CalculationRequest == UNION {[1..n -> TaskInput] : n \in 0..MaxBatch}

\* class TaskOutput(TaskInput)
TaskOutput(t, duration_hours, cost) ==
    [description |-> t.description, start_time |-> t.start_time,
     end_time |-> t.end_time, duration_hours |-> duration_hours, cost |-> cost]

\* TaskDB(...) as built by the handler: id and created_at are not set yet
NewTaskDB(t, duration_hours, cost) ==
    [description |-> t.description, start_time |-> t.start_time,
     end_time |-> t.end_time, duration_hours |-> duration_hours, cost |-> cost]

\* the row of calculated_tasks an INSERT of object o produces: the primary key
\* comes from the table's sequence, created_at from the column default.  Time
\* is logical: it ticks once per inserted row, so the stamp is the ordinal.
InsertedRow(o, id) ==
    [id |-> id, description |-> o.description, start_time |-> o.start_time,
     end_time |-> o.end_time, duration_hours |-> o.duration_hours,
     cost |-> o.cost, created_at |-> id]

\* exceptions
NoException == [type |-> "none", status_code |-> 0, detail |-> <<>>]
HTTPException(status_code, detail) ==
    [type |-> "HTTPException", status_code |-> status_code, detail |-> detail]
CommitError == [type |-> "CommitError", status_code |-> 0, detail |-> <<>>]
QueryError == [type |-> "QueryError", status_code |-> 0, detail |-> <<>>]

\* what the client receives
NoResponse == [status |-> 0, detail |-> <<>>, body |-> <<>>]
ErrorResponse(status_code, detail) ==
    [status |-> status_code, detail |-> detail, body |-> <<>>]
OkResponse(body) == [status |-> Success, detail |-> <<>>, body |-> body]

NoTask == [id |-> 0]

VARIABLES
    HOURLY_RATE,              \* the process-wide rate
    store,                    \* the committed rows of calculated_tasks
    nextId,                   \* the next value of the table's id sequence
    pc,                       \* where each request is in its handler
    handler,                  \* which handler serves the request
    tasks,                    \* request.tasks
    task_id,                  \* the path parameter of delete_task
    db,                       \* the request's session: "none", "open", "closed"
    calculated_tasks_output,  \* the handler's local list
    grand_total,              \* the handler's local sum
    pending,                  \* objects db.add()ed and not flushed yet
    task,                     \* delete_task's query result
    raised,                   \* the exception raised inside the try block
    response                  \* the response the client gets

shared == <<HOURLY_RATE, store, nextId>>
locals == <<handler, tasks, task_id, db, calculated_tasks_output, grand_total,
            pending, task, raised, response>>
vars == <<HOURLY_RATE, store, nextId, pc, handler, tasks, task_id, db,
          calculated_tasks_output, grand_total, pending, task, raised, response>>

Init ==
    /\ HOURLY_RATE \in Rates
    /\ store = {}
    /\ nextId = 1
    /\ pc = [r \in Requests |-> "idle"]
    /\ handler = [r \in Requests |-> "none"]
    /\ tasks = [r \in Requests |-> <<>>]
    /\ task_id = [r \in Requests |-> 0]
    /\ db = [r \in Requests |-> "none"]
    /\ calculated_tasks_output = [r \in Requests |-> <<>>]
    /\ grand_total = [r \in Requests |-> Zero]
    /\ pending = [r \in Requests |-> <<>>]
    /\ task = [r \in Requests |-> NoTask]
    /\ raised = [r \in Requests |-> NoException]
    /\ response = [r \in Requests |-> NoResponse]


\* ------------------------------------------------- calculate_and_save_tasks
\* duration = task.end_time - task.start_time;
\* duration_hours = duration.total_seconds() / 3600, were / written //
DurationHoursFloorDiv(start_time, end_time) ==
    Rat((end_time - start_time) \div SecondsPerHour, 1)

\* duration = task.end_time - task.start_time;
\* duration_hours = duration.total_seconds() / 3600
DurationHours(start_time, end_time) == Rat(end_time - start_time, SecondsPerHour)

\* cost = duration_hours * HOURLY_RATE
Cost(duration_hours, rate) == RatMul(duration_hours, Rat(rate, 1))

\* The body of `for task in request.tasks:` run from the state acc of the
\* locals: the first task with end_time <= start_time raises and ends the loop.
RECURSIVE ForTasks(_, _, _)
ForTasks(ts, rate, acc) ==
    IF ts = <<>> THEN acc
    ELSE LET t == Head(ts) IN
         IF t.end_time <= t.start_time
         THEN [acc EXCEPT !.raised =
                  HTTPException(BadRequest, <<"end_not_after_start", t.description>>)]
         ELSE LET duration_hours == DurationHours(t.start_time, t.end_time)
                  cost == Cost(duration_hours, rate)
              IN ForTasks(Tail(ts), rate,
                     [raised |-> acc.raised,
                      calculated_tasks_output |->
                          Append(acc.calculated_tasks_output,
                                 TaskOutput(t, duration_hours, cost)),
                      grand_total |-> RatAdd(acc.grand_total, cost),
                      pending |-> Append(acc.pending,
                                         NewTaskDB(t, duration_hours, cost))])

\* rows the requests now between db.add and db.commit may still insert
RECURSIVE InFlightInserts(_)
InFlightInserts(R) ==
    IF R = {} THEN 0
    ELSE LET r == CHOOSE q \in R : TRUE
         IN (IF pc[r] \in {"loop", "commit"} THEN Len(tasks[r]) ELSE 0)
            + InFlightInserts(R \ {r})

\* CalcEnter, had db = SessionLocal() been written before the empty check
CalcEnterSessionFirst(r, ts) ==
    /\ pc[r] = "idle"
    /\ handler' = [handler EXCEPT ![r] = "calculate"]
    /\ tasks' = [tasks EXCEPT ![r] = ts]
    /\ db' = [db EXCEPT ![r] = "open"]
    /\ IF ts = <<>>
       THEN /\ response' = [response EXCEPT ![r] =
                               ErrorResponse(BadRequest, <<"empty_task_list">>)]
            /\ pc' = [pc EXCEPT ![r] = "done"]
       ELSE /\ pc' = [pc EXCEPT ![r] = "loop"]
            /\ response' = response
    /\ UNCHANGED <<shared, task_id, calculated_tasks_output, grand_total,
                   pending, task, raised>>

\* def calculate_and_save_tasks(request): the empty check, then SessionLocal()
CalcEnter(r, ts) ==
    /\ pc[r] = "idle"
    /\ handler' = [handler EXCEPT ![r] = "calculate"]
    /\ tasks' = [tasks EXCEPT ![r] = ts]
    /\ IF ts = <<>>
       THEN /\ response' = [response EXCEPT ![r] =
                               ErrorResponse(BadRequest, <<"empty_task_list">>)]
            /\ pc' = [pc EXCEPT ![r] = "done"]
            /\ db' = db
       ELSE /\ db' = [db EXCEPT ![r] = "open"]
            /\ pc' = [pc EXCEPT ![r] = "loop"]
            /\ response' = response
    /\ UNCHANGED <<shared, task_id, calculated_tasks_output, grand_total,
                   pending, task, raised>>

\* CalcLoop, had the session been made with autocommit: every db.add is
\* written at once, so the tasks before an invalid one are already rows
CalcLoopAutocommit(r) ==
    /\ pc[r] = "loop"
    /\ LET res == ForTasks(tasks[r], HOURLY_RATE,
                           [raised |-> NoException,
                            calculated_tasks_output |-> <<>>,
                            grand_total |-> Zero,
                            pending |-> <<>>])
       IN /\ calculated_tasks_output' =
                 [calculated_tasks_output EXCEPT ![r] = res.calculated_tasks_output]
          /\ grand_total' = [grand_total EXCEPT ![r] = res.grand_total]
          /\ pending' = [pending EXCEPT ![r] = <<>>]
          /\ raised' = [raised EXCEPT ![r] = res.raised]
          /\ store' = store \cup
                 {InsertedRow(res.pending[i], nextId + i - 1) :
                      i \in 1..Len(res.pending)}
          /\ nextId' = nextId + Len(res.pending)
          /\ pc' = [pc EXCEPT ![r] =
                       IF res.raised = NoException THEN "commit" ELSE "except"]
    /\ UNCHANGED <<HOURLY_RATE, handler, tasks, task_id, db, task, response>>

\* the for loop inside the try block
CalcLoop(r) ==
    /\ pc[r] = "loop"
    /\ LET res == ForTasks(tasks[r], HOURLY_RATE,
                           [raised |-> NoException,
                            calculated_tasks_output |-> <<>>,
                            grand_total |-> Zero,
                            pending |-> <<>>])
       IN /\ calculated_tasks_output' =
                 [calculated_tasks_output EXCEPT ![r] = res.calculated_tasks_output]
          /\ grand_total' = [grand_total EXCEPT ![r] = res.grand_total]
          /\ pending' = [pending EXCEPT ![r] = res.pending]
          /\ raised' = [raised EXCEPT ![r] = res.raised]
          /\ pc' = [pc EXCEPT ![r] =
                       IF res.raised = NoException THEN "commit" ELSE "except"]
    /\ UNCHANGED <<shared, handler, tasks, task_id, db, task, response>>

\* CalcCommit, had db.add(db_task) been written after the loop: only the last
\* object is in the session
CalcCommitLastOnly(r) ==
    /\ pc[r] = "commit"
    /\ handler[r] = "calculate"
    /\ store' = store \cup {InsertedRow(pending[r][Len(pending[r])], nextId)}
    /\ nextId' = nextId + 1
    /\ pending' = [pending EXCEPT ![r] = <<>>]
    /\ pc' = [pc EXCEPT ![r] = "finally"]
    /\ UNCHANGED <<HOURLY_RATE, handler, tasks, task_id, db,
                   calculated_tasks_output, grand_total, task, raised, response>>

\* db.commit() succeeds: every added object becomes a row, in one transaction
CalcCommit(r) ==
    /\ pc[r] = "commit"
    /\ handler[r] = "calculate"
    /\ store' = store \cup
           {InsertedRow(pending[r][i], nextId + i - 1) : i \in 1..Len(pending[r])}
    /\ nextId' = nextId + Len(pending[r])
    /\ pending' = [pending EXCEPT ![r] = <<>>]
    /\ pc' = [pc EXCEPT ![r] = "finally"]
    /\ UNCHANGED <<HOURLY_RATE, handler, tasks, task_id, db,
                   calculated_tasks_output, grand_total, task, raised, response>>

\* CalcCommitFail, had each object been committed on its own: the failure
\* comes after the first row is written
CalcCommitFailPartial(r) ==
    /\ pc[r] = "commit"
    /\ handler[r] = "calculate"
    /\ store' = store \cup {InsertedRow(pending[r][1], nextId)}
    /\ nextId' = nextId + 1
    /\ raised' = [raised EXCEPT ![r] = CommitError]
    /\ pc' = [pc EXCEPT ![r] = "except"]
    /\ UNCHANGED <<HOURLY_RATE, handler, tasks, task_id, db,
                   calculated_tasks_output, grand_total, pending, task, response>>

\* db.commit() raises
CalcCommitFail(r) ==
    /\ pc[r] = "commit"
    /\ handler[r] = "calculate"
    /\ raised' = [raised EXCEPT ![r] = CommitError]
    /\ pc' = [pc EXCEPT ![r] = "except"]
    /\ UNCHANGED <<shared, handler, tasks, task_id, db, calculated_tasks_output,
                   grand_total, pending, task, response>>

\* except Exception as e: db.rollback(); raise HTTPException(500)
CalcExcept(r) ==
    /\ pc[r] = "except"
    /\ handler[r] = "calculate"
    /\ pending' = [pending EXCEPT ![r] = <<>>]
    /\ response' = [response EXCEPT ![r] =
                       ErrorResponse(InternalError, <<"internal_error_tasks">>)]
    /\ pc' = [pc EXCEPT ![r] = "finally"]
    /\ UNCHANGED <<shared, handler, tasks, task_id, db, calculated_tasks_output,
                   grand_total, task, raised>>

\* finally: db.close(); then, when nothing is propagating, the return
CalcFinally(r) ==
    /\ pc[r] = "finally"
    /\ handler[r] = "calculate"
    /\ db' = [db EXCEPT ![r] = "closed"]
    /\ response' = [response EXCEPT ![r] =
           IF response[r] = NoResponse
           THEN OkResponse([calculated_tasks |-> calculated_tasks_output[r],
                            grand_total |-> grand_total[r]])
           ELSE response[r]]
    /\ pc' = [pc EXCEPT ![r] = "done"]
    /\ UNCHANGED <<shared, handler, tasks, task_id, calculated_tasks_output,
                   grand_total, pending, task, raised>>

\* --------------------------------------------------------------- list_tasks
IsPermutation(f, S) ==
    /\ \A x \in S : \E i \in DOMAIN f : f[i] = x
    /\ \A i, j \in DOMAIN f : f[i] = f[j] => i = j

\* OrderByStartDesc, had .desc() been left out
OrderByStartAsc(S) ==
    {f \in [1..Cardinality(S) -> S] :
        /\ IsPermutation(f, S)
        /\ \A i \in 1..(Cardinality(S) - 1) : f[i].start_time <= f[i + 1].start_time}

\* db.query(TaskDB).order_by(TaskDB.start_time.desc()).all(): every order the
\* database may return, rows of equal start_time in any order
OrderByStartDesc(S) ==
    {f \in [1..Cardinality(S) -> S] :
        /\ IsPermutation(f, S)
        /\ \A i \in 1..(Cardinality(S) - 1) : f[i].start_time >= f[i + 1].start_time}

\* the dict appended to result for row t
TaskListItem(t, rate) ==
    [id |-> t.id, description |-> t.description, start_time |-> t.start_time,
     end_time |-> t.end_time, duration_hours |-> t.duration_hours,
     calculated_value |-> t.cost, hourly_rate |-> Rat(rate, 1),
     created_at |-> t.created_at]

\* def list_tasks(): db = SessionLocal()
ListEnter(r) ==
    /\ pc[r] = "idle"
    /\ handler' = [handler EXCEPT ![r] = "list"]
    /\ db' = [db EXCEPT ![r] = "open"]
    /\ pc' = [pc EXCEPT ![r] = "query"]
    /\ UNCHANGED <<shared, tasks, task_id, calculated_tasks_output, grand_total,
                   pending, task, raised, response>>

\* the query and the loop that builds result
ListQuery(r) ==
    /\ pc[r] = "query"
    /\ handler[r] = "list"
    /\ \E rows \in OrderByStartDesc(store) :
           response' = [response EXCEPT ![r] =
               OkResponse([i \in DOMAIN rows |-> TaskListItem(rows[i], HOURLY_RATE)])]
    /\ pc' = [pc EXCEPT ![r] = "finally"]
    /\ UNCHANGED <<shared, handler, tasks, task_id, db, calculated_tasks_output,
                   grand_total, pending, task, raised>>

\* the query raises: list_tasks has no except block, the framework answers 500
ListQueryFail(r) ==
    /\ pc[r] = "query"
    /\ handler[r] = "list"
    /\ raised' = [raised EXCEPT ![r] = QueryError]
    /\ response' = [response EXCEPT ![r] =
                       ErrorResponse(InternalError, <<"internal_server_error">>)]
    /\ pc' = [pc EXCEPT ![r] = "finally"]
    /\ UNCHANGED <<shared, handler, tasks, task_id, db, calculated_tasks_output,
                   grand_total, pending, task>>

\* finally: db.close()
ListFinally(r) ==
    /\ pc[r] = "finally"
    /\ handler[r] = "list"
    /\ db' = [db EXCEPT ![r] = "closed"]
    /\ pc' = [pc EXCEPT ![r] = "done"]
    /\ UNCHANGED <<shared, handler, tasks, task_id, calculated_tasks_output,
                   grand_total, pending, task, raised, response>>

\* -------------------------------------------------------------- delete_task
\* def delete_task(task_id): db = SessionLocal()
DeleteEnter(r, id) ==
    /\ pc[r] = "idle"
    /\ handler' = [handler EXCEPT ![r] = "delete"]
    /\ task_id' = [task_id EXCEPT ![r] = id]
    /\ db' = [db EXCEPT ![r] = "open"]
    /\ pc' = [pc EXCEPT ![r] = "query"]
    /\ UNCHANGED <<shared, tasks, calculated_tasks_output, grand_total, pending,
                   task, raised, response>>

\* task = db.query(TaskDB).filter(TaskDB.id == task_id).first();
\* if not task: raise HTTPException(404); db.delete(task)
DeleteQuery(r) ==
    /\ pc[r] = "query"
    /\ handler[r] = "delete"
    /\ LET found == {t \in store : t.id = task_id[r]}
       IN IF found = {}
          THEN /\ task' = [task EXCEPT ![r] = NoTask]
               /\ raised' = [raised EXCEPT ![r] =
                                HTTPException(NotFound, <<"not_found">>)]
               /\ pc' = [pc EXCEPT ![r] = "except"]
          ELSE /\ task' = [task EXCEPT ![r] = CHOOSE t \in found : TRUE]
               /\ raised' = raised
               /\ pc' = [pc EXCEPT ![r] = "commit"]
    /\ UNCHANGED <<shared, handler, tasks, task_id, db, calculated_tasks_output,
                   grand_total, pending, response>>

\* the query raises
DeleteQueryFail(r) ==
    /\ pc[r] = "query"
    /\ handler[r] = "delete"
    /\ raised' = [raised EXCEPT ![r] = QueryError]
    /\ pc' = [pc EXCEPT ![r] = "except"]
    /\ UNCHANGED <<shared, handler, tasks, task_id, db, calculated_tasks_output,
                   grand_total, pending, task, response>>

\* db.commit() succeeds; return {"detail": ...}
DeleteCommit(r) ==
    /\ pc[r] = "commit"
    /\ handler[r] = "delete"
    /\ store' = store \ {task[r]}
    /\ response' = [response EXCEPT ![r] = OkResponse(<<"removed">>)]
    /\ pc' = [pc EXCEPT ![r] = "finally"]
    /\ UNCHANGED <<HOURLY_RATE, nextId, handler, tasks, task_id, db,
                   calculated_tasks_output, grand_total, pending, task, raised>>

\* db.commit() raises
DeleteCommitFail(r) ==
    /\ pc[r] = "commit"
    /\ handler[r] = "delete"
    /\ raised' = [raised EXCEPT ![r] = CommitError]
    /\ pc' = [pc EXCEPT ![r] = "except"]
    /\ UNCHANGED <<shared, handler, tasks, task_id, db, calculated_tasks_output,
                   grand_total, pending, task, response>>

\* DeleteExcept, had db.close() been the last line of the try block and not a
\* finally block: the raise leaves the handler at once
DeleteExceptNoFinally(r) ==
    /\ pc[r] = "except"
    /\ handler[r] = "delete"
    /\ response' = [response EXCEPT ![r] =
                       ErrorResponse(InternalError, <<"delete_error">>)]
    /\ pc' = [pc EXCEPT ![r] = "done"]
    /\ UNCHANGED <<shared, handler, tasks, task_id, db, calculated_tasks_output,
                   grand_total, pending, task, raised>>

\* except Exception as e: db.rollback(); raise HTTPException(500)
DeleteExcept(r) ==
    /\ pc[r] = "except"
    /\ handler[r] = "delete"
    /\ response' = [response EXCEPT ![r] =
                       ErrorResponse(InternalError, <<"delete_error">>)]
    /\ pc' = [pc EXCEPT ![r] = "finally"]
    /\ UNCHANGED <<shared, handler, tasks, task_id, db, calculated_tasks_output,
                   grand_total, pending, task, raised>>

\* finally: db.close()
DeleteFinally(r) ==
    /\ pc[r] = "finally"
    /\ handler[r] = "delete"
    /\ db' = [db EXCEPT ![r] = "closed"]
    /\ pc' = [pc EXCEPT ![r] = "done"]
    /\ UNCHANGED <<shared, handler, tasks, task_id, calculated_tasks_output,
                   grand_total, pending, task, raised, response>>

\* ------------------------------------------------------------- environment
\* the framework has sent the response: the handler's frame is gone
Return(r) ==
    /\ pc[r] = "done"
    /\ pc' = [pc EXCEPT ![r] = "idle"]
    /\ handler' = [handler EXCEPT ![r] = "none"]
    /\ tasks' = [tasks EXCEPT ![r] = <<>>]
    /\ task_id' = [task_id EXCEPT ![r] = 0]
    /\ db' = [db EXCEPT ![r] = "none"]
    /\ calculated_tasks_output' = [calculated_tasks_output EXCEPT ![r] = <<>>]
    /\ grand_total' = [grand_total EXCEPT ![r] = Zero]
    /\ pending' = [pending EXCEPT ![r] = <<>>]
    /\ task' = [task EXCEPT ![r] = NoTask]
    /\ raised' = [raised EXCEPT ![r] = NoException]
    /\ response' = [response EXCEPT ![r] = NoResponse]
    /\ UNCHANGED shared

\* the process is restarted with another HOURLY_RATE in its environment; the
\* database outlives the process
Redeploy ==
    /\ \A r \in Requests : pc[r] = "idle"
    /\ HOURLY_RATE' \in Rates \ {HOURLY_RATE}
    /\ UNCHANGED <<store, nextId, pc, locals>>

\* ---------------------------------------------------------- specifications
\* ids the sequence can still hand out to a request that arrives now
Room == MaxId - (nextId - 1) - InFlightInserts(Requests)

\* one step of request r: a calculation takes at most maxLen tasks drawn from
\* inputs, a deletion takes its task_id from ids
Step(r, inputs, maxLen, ids) ==
    \/ \E n \in 0..maxLen :
           /\ n <= Room
           /\ \E ts \in [1..n -> inputs] : CalcEnter(r, ts)
    \/ CalcLoop(r)
    \/ CalcCommit(r)
    \/ CalcCommitFail(r)
    \/ CalcExcept(r)
    \/ CalcFinally(r)
    \/ ListEnter(r)
    \/ ListQuery(r)
    \/ ListQueryFail(r)
    \/ ListFinally(r)
    \/ \E id \in ids : DeleteEnter(r, id)
    \/ DeleteQuery(r)
    \/ DeleteQueryFail(r)
    \/ DeleteCommit(r)
    \/ DeleteCommitFail(r)
    \/ DeleteExcept(r)
    \/ DeleteFinally(r)
    \/ Return(r)

\* one request at a time
Next ==
    \/ Step(1, TaskInput, MaxBatch, 1..MaxId)
    \/ Redeploy

Spec == Init /\ [][Next]_vars

\* the tasks the clients of the concurrent specification send: they start at
\* 09:00:00 and end at 09:00:00 or 09:00:01
ShortTaskInput ==
    {t \in TaskInput : t.description = "a" /\ t.start_time = 0 /\ t.end_time <= 1}

InitConcurrent == Init /\ HOURLY_RATE = DefaultRate

\* requests interleave at every step, within one deployment; deletions aim at
\* the first row
NextConcurrent == \E r \in Requests : Step(r, ShortTaskInput, 1, {1})

SpecConcurrent == InitConcurrent /\ [][NextConcurrent]_vars

TypeOK ==
    /\ HOURLY_RATE \in Rates
    /\ nextId \in 1..(MaxId + 1)
    /\ \A t \in store : t.id \in 1..(nextId - 1)
    /\ \A r \in Requests :
        /\ pc[r] \in {"idle", "loop", "query", "commit", "except", "finally", "done"}
        /\ handler[r] \in {"none", "calculate", "list", "delete"}
        /\ db[r] \in {"none", "open", "closed"}
        /\ tasks[r] \in CalculationRequest


\* ------------------------------------------------------------- properties
Invalid(t) == t.end_time <= t.start_time

HasInvalid(ts) == \E i \in DOMAIN ts : Invalid(ts[i])

FirstInvalid(ts) ==
    ts[CHOOSE i \in DOMAIN ts : Invalid(ts[i]) /\ \A j \in 1..(i - 1) : ~Invalid(ts[j])]

Finished(r, h) == pc[r] = "done" /\ handler[r] = h

\* the sum of the costs of a list of task outputs, from the right
RECURSIVE SumCost(_)
SumCost(outs) ==
    IF outs = <<>> THEN <<0, 1>>
    ELSE LET rest == SumCost(Tail(outs))
             c == Head(outs).cost
             n == c[1] * rest[2] + rest[1] * c[2]
             d == c[2] * rest[2]
             g == GCD(n, d)
         IN <<n \div g, d \div g>>

\* C1: a non-empty batch with a task whose end_time <= start_time ends with
\* BadRequest (400), the detail naming the description of the first such task
\* in input order, and with no other outcome.
C1_InvalidBatchIsBadRequest ==
    \A r \in Requests :
        (Finished(r, "calculate") /\ tasks[r] # <<>> /\ HasInvalid(tasks[r]))
        => /\ response[r].status = BadRequest
           /\ response[r].detail =
                  <<"end_not_after_start", FirstInvalid(tasks[r]).description>>

\* C2: delete_task for a task_id of which the store holds no record ends with
\* NotFound (404).
C2_MissingIdIsNotFound ==
    \A r \in Requests :
        (Finished(r, "delete") /\ raised[r].type # "QueryError"
            /\ task[r] = NoTask)
        => response[r].status = NotFound

\* C3: while a calculate request whose batch holds a task with
\* end_time <= start_time is served, the persisted rows do not change, however
\* many valid tasks precede the invalid one: the store after the request is the
\* store before it.
C3_InvalidBatchPersistsNothing ==
    [][\A r \in Requests :
          (handler[r] = "calculate" /\ HasInvalid(tasks[r])) => store' = store]_vars

\* a rejected batch whose first task is valid: its object had been added to the
\* session when the invalid task was met
C3_Witness ==
    \E r \in Requests :
        /\ Finished(r, "calculate")
        /\ Len(tasks[r]) >= 2
        /\ ~Invalid(tasks[r][1])
        /\ Invalid(tasks[r][Len(tasks[r])])
        /\ Len(calculated_tasks_output[r]) >= 1
        /\ response[r].status >= BadRequest

\* C4: every item list_tasks returns satisfies
\* calculated_value = duration_hours * hourly_rate, also when HOURLY_RATE was
\* changed between the row's creation and the listing.
C4_ListedRateExplainsValue ==
    \A r \in Requests :
        (Finished(r, "list") /\ response[r].status = Success)
        => \A i \in DOMAIN response[r].body :
               LET item == response[r].body[i]
               IN item.calculated_value =
                      RatMul(item.duration_hours, item.hourly_rate)

\* C5: a non-empty batch of valid tasks whose commit succeeds inserts exactly
\* one row per task and changes no other row, ends with success, returns the
\* outputs in input order, and returns as grand_total the sum of their costs.
C5_ValidBatchInsertsAndReturns ==
    [][\A r \in Requests :
          /\ (handler[r] = "calculate" /\ pc[r] = "commit" /\ pc'[r] = "finally")
             => /\ store \subseteq store'
                /\ Cardinality(store' \ store) = Len(tasks[r])
                /\ \A i \in DOMAIN tasks[r] :
                       \E row \in store' \ store :
                           /\ row.id = nextId + i - 1
                           /\ row.description = tasks[r][i].description
                           /\ row.start_time = tasks[r][i].start_time
                           /\ row.end_time = tasks[r][i].end_time
          /\ (handler[r] = "calculate" /\ pc[r] = "finally" /\ pc'[r] = "done"
                  /\ raised[r] = NoException)
             => LET out == response'[r].body
                IN /\ response'[r].status = Success
                   /\ Len(out.calculated_tasks) = Len(tasks[r])
                   /\ \A i \in DOMAIN tasks[r] :
                          /\ out.calculated_tasks[i].description = tasks[r][i].description
                          /\ out.calculated_tasks[i].start_time = tasks[r][i].start_time
                          /\ out.calculated_tasks[i].end_time = tasks[r][i].end_time
                   /\ out.grand_total = SumCost(out.calculated_tasks)]_vars

\* a successful batch of two different tasks, both persisted
C5_Witness ==
    \E r \in Requests :
        /\ Finished(r, "calculate")
        /\ response[r].status = Success
        /\ Len(tasks[r]) >= 2
        /\ tasks[r][1] # tasks[r][2]
        /\ Cardinality(store) >= 2

\* C6: for a task with end_time > start_time, duration_hours is the elapsed
\* seconds divided by 3600 and cost is duration_hours times the rate of the
\* request, in the output and in the persisted row; at rate 50, 09:00:00 to
\* 11:30:00 gives 2.5 hours and a cost of 125.
C6_DurationAndCost ==
    /\ \A row \in store :
           /\ row.duration_hours[1] * SecondsPerHour =
                  (row.end_time - row.start_time) * row.duration_hours[2]
           /\ \E rate \in Rates :
                  row.cost[1] * SecondsPerHour =
                      (row.end_time - row.start_time) * rate * row.cost[2]
    /\ \A r \in Requests :
           (Finished(r, "calculate") /\ response[r].status = Success)
           => \A i \in DOMAIN tasks[r] :
                  LET t == tasks[r][i]
                      o == response[r].body.calculated_tasks[i]
                      elapsed == t.end_time - t.start_time
                  IN /\ o.duration_hours[1] * SecondsPerHour = elapsed * o.duration_hours[2]
                     /\ o.cost[1] * SecondsPerHour = elapsed * HOURLY_RATE * o.cost[2]
                     /\ \E row \in store :
                            /\ row.description = t.description
                            /\ row.start_time = t.start_time
                            /\ row.end_time = t.end_time
                            /\ row.duration_hours = o.duration_hours
                            /\ row.cost = o.cost
                     /\ (HOURLY_RATE = 50 /\ t.start_time = 0 /\ t.end_time = ExampleEnd)
                        => (o.duration_hours = <<5, 2>> /\ o.cost = <<125, 1>>)

\* the example of the source, computed and persisted at rate 50
C6_Witness ==
    \E r \in Requests :
        /\ Finished(r, "calculate")
        /\ response[r].status = Success
        /\ HOURLY_RATE = 50
        /\ tasks[r][1].start_time = 0
        /\ tasks[r][1].end_time = ExampleEnd
        /\ \E row \in store : row.end_time - row.start_time = ExampleEnd

\* C7: only a commit that succeeds changes the store; a request whose commit
\* failed ends with InternalError (500), the record a failed delete aimed at
\* is still in the store, and a failed batch has nothing left to persist.
C7_FailedCommitChangesNothing ==
    [][/\ store' # store
          => \E r \in Requests :
                 pc[r] = "commit" /\ pc'[r] = "finally" /\ raised'[r] = NoException
       /\ \A r \in Requests :
              (raised[r] = CommitError /\ pc'[r] = "done")
              => /\ response'[r].status = InternalError
                 /\ (handler[r] = "delete" => task[r] \in store')
                 /\ (handler[r] = "calculate" => pending'[r] = <<>>)]_vars

\* a delete whose commit failed, answered 500, its record still stored
C7_Witness ==
    \E r \in Requests :
        /\ Finished(r, "delete")
        /\ raised[r] = CommitError
        /\ response[r].status = InternalError
        /\ task[r] \in store

\* C8: an empty task sequence ends with BadRequest (400) in the step that
\* receives it: no row is written and no session was opened.
C8_EmptyBatchRejectedBeforeSession ==
    [][\A r \in Requests :
          (pc[r] = "idle" /\ handler'[r] = "calculate" /\ tasks'[r] = <<>>)
          => /\ pc'[r] = "done"
             /\ response'[r].status = BadRequest
             /\ response'[r].detail = <<"empty_task_list">>
             /\ db'[r] = "none"
             /\ store' = store]_vars

\* an empty batch was rejected
C8_Witness ==
    \E r \in Requests :
        /\ Finished(r, "calculate")
        /\ tasks[r] = <<>>
        /\ response[r].status = BadRequest
        /\ db[r] = "none"

\* body lists exactly the rows of S, each once, by start_time descending
ListsExactly(body, S) ==
    /\ Len(body) = Cardinality(S)
    /\ \A t \in S :
           \E i \in DOMAIN body :
               /\ body[i].id = t.id
               /\ body[i].description = t.description
               /\ body[i].start_time = t.start_time
               /\ body[i].end_time = t.end_time
               /\ body[i].duration_hours = t.duration_hours
               /\ body[i].calculated_value = t.cost
               /\ body[i].created_at = t.created_at
    /\ \A i \in DOMAIN body :
           i < Len(body) => body[i].start_time >= body[i + 1].start_time
    /\ S = {} => body = <<>>

\* C9: list_tasks returns exactly the persisted rows, each once, ordered by
\* start_time descending, the empty list for an empty store, and does not
\* change the store.
C9_ListIsStoreByStartDesc ==
    [][\A r \in Requests :
          /\ handler[r] = "list" => store' = store
          /\ (handler'[r] = "list" /\ pc'[r] = "done" /\ response'[r].status = Success)
             => ListsExactly(response'[r].body, store')]_vars

\* a listing of two rows in which the row inserted later comes first
C9_Witness ==
    \E r \in Requests :
        /\ Finished(r, "list")
        /\ response[r].status = Success
        /\ Len(response[r].body) >= 2
        /\ response[r].body[1].start_time > response[r].body[2].start_time
        /\ response[r].body[1].id > response[r].body[2].id

OpenSessions == Cardinality({r \in Requests : db[r] = "open"})

\* C10: a request that opened a session has closed it when it completes, on
\* every exit path, and when all requests have completed no session is open.
C10_SessionsClosed ==
    /\ \A r \in Requests :
           /\ pc[r] \in {"idle", "done"} => db[r] # "open"
           /\ (pc[r] = "done" /\ ~(handler[r] = "calculate" /\ tasks[r] = <<>>))
              => db[r] = "closed"
    /\ (\A r \in Requests : pc[r] \in {"idle", "done"}) => OpenSessions = 0

\* two requests that ran together have completed, one with success and one
\* through the except block, both sessions closed
C10_Witness ==
    /\ \A r \in Requests : pc[r] = "done" /\ db[r] = "closed"
    /\ \E r \in Requests : response[r].status = Success
    /\ \E r \in Requests :
           response[r].status = InternalError /\ raised[r].type = "HTTPException"

=============================================================================
